---- MODULE Spec2Model ----
(***************************************************************************)
(* Model of the active_sse crate (src/src/lib.rs): the Config builder with *)
(* its kind-checked setters, the ActiveSSE listener that opens an          *)
(* EventSource at the configured URL, and the mpsc receiver through which  *)
(* the caller pulls the events.                                            *)
(*                                                                         *)
(* Rust Strings are TLA+ strings and format!("{}{}", a, b) is a \o b.      *)
(* An Option<String> is a sequence of length at most one: None is << >>    *)
(* and Some(v) is <<v>>.                                                   *)
(***************************************************************************)
EXTENDS Integers, Sequences, FiniteSets, TLC

VARIABLES
    factory,    \* which constructor built the Config: "activity" or "event"
    base_url,   \* the &str handed to that constructor
    config,     \* the Config value (url, config_type, stream_id, contract, event)
    calls,      \* log of the setter calls made so far, with what each returned
    sse,        \* << >> until ActiveSSE::new(config), then <<[config |-> ...]>>
    opens,      \* log of the EventSource::new requests made by subscribe()
    sessions    \* the EventSource sessions opened, each with its channel

vars == <<factory, base_url, config, calls, sse, opens, sessions>>

----------------------------------------------------------------------------
(* Bounds and input sets *)

MaxCalls == 3        \* setter calls per configuration
MaxSubscribes == 2   \* subscribe() calls per listener
MaxEvents == 2       \* events pushed by the transport, over all sessions

BaseUrls == {"http://host:5260", "http://localhost:5260"}
Args == {"c1", "fired"}
Events == {"e1", "e2"}
OpenErrors == {"ParseError", "ConnectError"}

----------------------------------------------------------------------------
(* Option<String> *)

None == << >>
Some(v) == <<v>>

----------------------------------------------------------------------------
(* impl Config *)

Config_activity(url) ==
    [url |-> url \o "/api/activity/subscribe/",
     config_type |-> "Activity",
     stream_id |-> None,
     contract |-> None,
     event |-> None]

\* Config::event with the trailing slash of the path left out.
Config_event_no_slash(url) ==
    [url |-> url \o "/api/events",
     config_type |-> "Event",
     stream_id |-> None,
     contract |-> None,
     event |-> None]

Config_event(url) ==
    [url |-> url \o "/api/events/",
     config_type |-> "Event",
     stream_id |-> None,
     contract |-> None,
     event |-> None]

\* Each setter returns Err(e) and leaves self alone, or mutates self and
\* returns Ok(self): here the pair of the result tag and self afterwards.
Err(e, self) == [res |-> e, self |-> self]
Ok(self) == [res |-> "Ok", self |-> self]

\* set_stream_id skipping the append when the same id is already stored.
Config_set_stream_id_dedup(self, id) ==
    IF "Activity" # self.config_type
    THEN Err("IncompatibleConfig", self)
    ELSE IF self.stream_id = Some(id)
    THEN Ok(self)
    ELSE Ok([self EXCEPT !.stream_id = Some(id), !.url = self.url \o id])

\* set_stream_id without the check of the kind.
Config_set_stream_id_unchecked(self, id) ==
    Ok([self EXCEPT !.stream_id = Some(id), !.url = self.url \o id])

Config_set_stream_id(self, id) ==
    IF "Activity" # self.config_type
    THEN Err("IncompatibleConfig", self)
    ELSE Ok([self EXCEPT !.stream_id = Some(id), !.url = self.url \o id])

\* set_contract turning the configuration into an Event one instead of
\* rejecting the call.
Config_set_contract_switch_kind(self, contract) ==
    Ok([self EXCEPT !.config_type = "Event",
                    !.contract = Some(contract),
                    !.url = self.url \o contract])

\* set_contract joining the segment with a separator.
Config_set_contract_separator(self, contract) ==
    IF "Event" # self.config_type
    THEN Err("IncompatibleConfig", self)
    ELSE Ok([self EXCEPT !.contract = Some(contract),
                         !.url = self.url \o "/" \o contract])

Config_set_contract(self, contract) ==
    IF "Event" # self.config_type
    THEN Err("IncompatibleConfig", self)
    ELSE Ok([self EXCEPT !.contract = Some(contract),
                         !.url = self.url \o contract])

\* set_event with its two checks in the other order.
Config_set_event_contract_first(self, event) ==
    IF self.contract = None
    THEN Err("ContractNotSet", self)
    ELSE IF "Event" # self.config_type
    THEN Err("IncompatibleConfig", self)
    ELSE Ok([self EXCEPT !.event = Some(event), !.url = self.url \o event])

\* set_event without the check that a contract has been set.
Config_set_event_unchecked(self, event) ==
    IF "Event" # self.config_type
    THEN Err("IncompatibleConfig", self)
    ELSE Ok([self EXCEPT !.event = Some(event), !.url = self.url \o event])

\* set_event storing the event name before it checks for the contract.
Config_set_event_store_first(self, event) ==
    IF "Event" # self.config_type
    THEN Err("IncompatibleConfig", self)
    ELSE IF self.contract = None
    THEN Err("ContractNotSet", [self EXCEPT !.event = Some(event)])
    ELSE Ok([self EXCEPT !.event = Some(event), !.url = self.url \o event])

Config_set_event(self, event) ==
    IF "Event" # self.config_type
    THEN Err("IncompatibleConfig", self)
    ELSE IF self.contract = None
    THEN Err("ContractNotSet", self)
    ELSE Ok([self EXCEPT !.event = Some(event), !.url = self.url \o event])

Config_get_url(self) == self.url

----------------------------------------------------------------------------
(* The caller's steps while it still owns the Config *)

Init ==
    /\ factory \in {"activity", "event"}
    /\ base_url \in BaseUrls
    /\ config = IF factory = "activity" THEN Config_activity(base_url)
                                        ELSE Config_event(base_url)
    /\ calls = << >>
    /\ sse = << >>
    /\ opens = << >>
    /\ sessions = << >>

\* A setter call on a Config the caller kept a handle to after giving it to
\* the listener.
Call_shared(op, arg, r) ==
    /\ Len(calls) < MaxCalls
    /\ config' = r.self
    /\ calls' = Append(calls, [op |-> op, arg |-> arg, res |-> r.res,
                               before |-> config, after |-> r.self])
    /\ UNCHANGED <<factory, base_url, sse, opens, sessions>>

\* One setter call: the Config becomes what the setter left, and the call is
\* logged with its argument, its result and the Config before and after it.
Call(op, arg, r) ==
    /\ sse = << >>
    /\ Len(calls) < MaxCalls
    /\ config' = r.self
    /\ calls' = Append(calls, [op |-> op, arg |-> arg, res |-> r.res,
                               before |-> config, after |-> r.self])
    /\ UNCHANGED <<factory, base_url, sse, opens, sessions>>

CallSetStreamId ==
    \E id \in Args : Call("set_stream_id", id, Config_set_stream_id(config, id))

CallSetContract ==
    \E c \in Args : Call("set_contract", c, Config_set_contract(config, c))

CallSetEvent ==
    \E e \in Args : Call("set_event", e, Config_set_event(config, e))

----------------------------------------------------------------------------
(* The stream transport (sse_client::EventSource) and its mpsc channel *)

\* EventSource::new(url): the transport either builds a client for url or
\* fails with a cause of its own.  transport = [outcome, next_id] is what the
\* collaborator answers to this request and the identity it gives the client.
EventSource_new(transport, url) ==
    IF transport.outcome = "ok"
    THEN [ok |-> TRUE, url |-> url, id |-> transport.next_id]
    ELSE [ok |-> FALSE, url |-> url, cause |-> transport.outcome]

\* client.receiver(): the receiving end of the client's event channel.
EventSource_receiver(client) == [id |-> client.id]

\* A session just opened: nothing pushed, nothing received.
NewSession(client) ==
    [id |-> client.id, url |-> client.url, state |-> "open",
     chan |-> << >>, pushed |-> << >>, received |-> << >>,
     terminated |-> FALSE]

----------------------------------------------------------------------------
(* impl ActiveSSE *)

ActiveSSE_new(cfg) == [config |-> cfg]

\* subscribe returning the error although the transport built a client,
\* which then stays alive.
ActiveSSE_subscribe_err_after_open(self, transport) ==
    LET client == EventSource_new(transport, Config_get_url(self.config))
    IN  [client |-> client, ret |-> [tag |-> "Err", err |-> "EventSource"]]

\* subscribe passing the transport's own error on to the caller.
ActiveSSE_subscribe_leak(self, transport) ==
    LET client == EventSource_new(transport, Config_get_url(self.config))
    IN  [client |-> client,
         ret |-> IF client.ok
                 THEN [tag |-> "Ok", receiver |-> EventSource_receiver(client)]
                 ELSE [tag |-> "Err", err |-> client.cause]]

\* subscribe(&self): the request made to the transport and the value returned.
ActiveSSE_subscribe(self, transport) ==
    LET client == EventSource_new(transport, Config_get_url(self.config))
    IN  [client |-> client,
         ret |-> IF client.ok
                 THEN [tag |-> "Ok", receiver |-> EventSource_receiver(client)]
                 ELSE [tag |-> "Err", err |-> "EventSource"]]

\* ActiveSSE::new(config) moves the Config into the listener: no setter can
\* be called on it afterwards.
New ==
    /\ sse = << >>
    /\ sse' = <<ActiveSSE_new(config)>>
    /\ UNCHANGED <<factory, base_url, config, calls, opens, sessions>>

\* subscribe() asking the transport again, within the same call, when the
\* first request fails.
Subscribe_retry ==
    /\ sse # << >>
    /\ Len(opens) < MaxSubscribes
    /\ \E o1 \in {"ok"} \cup OpenErrors, o2 \in {"ok"} \cup OpenErrors :
         LET r1 == ActiveSSE_subscribe(sse[1], [outcome |-> o1,
                                                next_id |-> Len(opens) + 1])
             r2 == ActiveSSE_subscribe(sse[1], [outcome |-> o2,
                                                next_id |-> Len(opens) + 2])
         IN  IF r1.client.ok
             THEN /\ opens' = Append(opens, r1)
                  /\ sessions' = Append(sessions, NewSession(r1.client))
             ELSE /\ opens' = opens \o <<r1, r2>>
                  /\ sessions' = IF r2.client.ok
                                 THEN Append(sessions, NewSession(r2.client))
                                 ELSE sessions
    /\ UNCHANGED <<factory, base_url, config, calls, sse>>

Subscribe ==
    /\ sse # << >>
    /\ Len(opens) < MaxSubscribes
    /\ \E outcome \in {"ok"} \cup OpenErrors :
         LET r == ActiveSSE_subscribe(sse[1], [outcome |-> outcome,
                                               next_id |-> Len(opens) + 1])
         IN  /\ opens' = Append(opens, r)
             /\ sessions' = IF r.client.ok
                            THEN Append(sessions, NewSession(r.client))
                            ELSE sessions
    /\ UNCHANGED <<factory, base_url, config, calls, sse>>

----------------------------------------------------------------------------
(* Producer and consumer of an open session *)

RECURSIVE TotalPushed(_)
TotalPushed(ss) ==
    IF ss = << >> THEN 0 ELSE Len(Head(ss).pushed) + TotalPushed(Tail(ss))

\* The transport's thread sends one event into the channel; send never waits.
TransportPush(i) ==
    /\ sessions[i].state = "open"
    /\ TotalPushed(sessions) < MaxEvents
    /\ \E e \in Events :
         sessions' = [sessions EXCEPT ![i].chan = Append(@, e),
                                      ![i].pushed = Append(@, e)]
    /\ UNCHANGED <<factory, base_url, config, calls, sse, opens>>

\* The transport ends the stream, cleanly or with a fatal error: either way
\* the sending end of the channel is gone.
TransportEnd(i, how) ==
    /\ sessions[i].state = "open"
    /\ sessions' = [sessions EXCEPT ![i].state = how]
    /\ UNCHANGED <<factory, base_url, config, calls, sse, opens>>

\* A consumer that polls (try_recv) and takes an empty channel for the end.
Receiver_recv_poll(s) ==
    IF s.chan # << >>
    THEN [s EXCEPT !.chan = Tail(@), !.received = Append(@, Head(s.chan))]
    ELSE [s EXCEPT !.terminated = TRUE]

\* rec.recv(): the oldest queued event; Err once the channel is empty and
\* its sending end is gone; otherwise the call blocks (the session is left
\* as it is).
Receiver_recv(s) ==
    IF s.chan # << >>
    THEN [s EXCEPT !.chan = Tail(@), !.received = Append(@, Head(s.chan))]
    ELSE IF s.state # "open"
    THEN [s EXCEPT !.terminated = TRUE]
    ELSE s

\* One turn of the consumer's loop over the receiver of session i; the loop
\* ends (unwrap panics) at the first Err.
Recv(i) ==
    /\ i \in DOMAIN sessions
    /\ ~sessions[i].terminated
    /\ sessions' = [sessions EXCEPT ![i] = Receiver_recv(@)]
    /\ sessions' # sessions
    /\ UNCHANGED <<factory, base_url, config, calls, sse, opens>>

Push == \E i \in DOMAIN sessions : TransportPush(i)
Close == \E i \in DOMAIN sessions : TransportEnd(i, "closed")
Fail == \E i \in DOMAIN sessions : TransportEnd(i, "failed")
Consume == \E i \in DOMAIN sessions : Recv(i)

----------------------------------------------------------------------------
(* Specifications *)

\* Building a configuration with any setter calls, then listening.
Next ==
    \/ CallSetStreamId
    \/ CallSetContract
    \/ CallSetEvent
    \/ New
    \/ Subscribe

Spec == Init /\ [][Next]_vars

\* A configuration used as constructed (tests::it_works): listening, and
\* the traffic of the sessions it opens.
StreamNext ==
    \/ New
    \/ Subscribe
    \/ Push
    \/ Close
    \/ Fail
    \/ Consume

\* Config::activity(url), as in tests::it_works.
StreamInit == Init /\ factory = "activity"

StreamSpec == StreamInit /\ [][StreamNext]_vars

\* The consumer loops on recv() for as long as it returns events.
StreamFairSpec ==
    StreamSpec /\ \A i \in 1..MaxSubscribes : WF_vars(Recv(i))

\* The same consumer and traffic for the one URL of the end-to-end scenarios.
DeliveryInit == StreamInit /\ base_url = "http://host:5260"

DeliverySpec ==
    /\ DeliveryInit /\ [][StreamNext]_vars
    /\ \A i \in 1..MaxSubscribes : WF_vars(Recv(i))

----------------------------------------------------------------------------
(* Vocabulary of the properties *)

Setters == {"set_stream_id", "set_contract", "set_event"}

\* The calls of setter op that returned Ok.
Accepted(op) == {i \in DOMAIN calls : calls[i].op = op /\ calls[i].res = "Ok"}

\* Each setter was accepted at most once.
CallOnce == \A op \in Setters : Cardinality(Accepted(op)) <= 1

\* Only setters legal for the kind were called.
LegalOnly == \A i \in DOMAIN calls : calls[i].res # "IncompatibleConfig"

\* The value setter op was given, "" when it was never accepted.
Segment(op) ==
    IF Accepted(op) = {} THEN ""
    ELSE calls[CHOOSE i \in Accepted(op) : TRUE].arg

\* The resource path grammar: the path made of the values given to the setters.
GrammarPath ==
    IF factory = "activity"
    THEN base_url \o "/api/activity/subscribe/" \o Segment("set_stream_id")
    ELSE base_url \o "/api/events/" \o Segment("set_contract")
                  \o Segment("set_event")

\* The value of an optional field, "" when absent.
Flat(opt) == IF opt = None THEN "" ELSE opt[1]

----------------------------------------------------------------------------
(* Properties of the configuration *)

\* C1: when only setters legal for the kind are called, each accepted at most
\* once, the resolved path is base_url, then the kind's fixed path, then the
\* values given (stream id for Activity; contract then event for Event), with
\* nothing in between.
C1_ResolvedPath ==
    (LegalOnly /\ CallOnce) => Config_get_url(config) = GrammarPath

\* C1, witness: new_event("http://host:5260"), set_contract("c1"),
\* set_event("fired") has given "http://host:5260/api/events/c1fired".
C1_Witness ==
    /\ factory = "event"
    /\ LegalOnly /\ CallOnce
    /\ Accepted("set_contract") # {} /\ Accepted("set_event") # {}
    /\ Config_get_url(config) = "http://host:5260/api/events/c1fired"

\* C2: set_stream_id on an Event configuration, and set_contract or set_event
\* on an Activity configuration, return IncompatibleConfig, whatever the
\* argument and whatever else is set or not.
C2_WrongKindRejected ==
    \A i \in DOMAIN calls :
        LET c == calls[i] IN
        /\ (c.op = "set_stream_id" /\ c.before.config_type = "Event")
              => c.res = "IncompatibleConfig"
        /\ (c.op \in {"set_contract", "set_event"}
              /\ c.before.config_type = "Activity")
              => c.res = "IncompatibleConfig"

\* C2, witness: set_event on an Activity configuration, which has no
\* contract, has returned IncompatibleConfig.
C2_Witness ==
    \E i \in DOMAIN calls :
        /\ calls[i].op = "set_event"
        /\ calls[i].before.config_type = "Activity"
        /\ calls[i].before.contract = None
        /\ calls[i].res = "IncompatibleConfig"

\* C3: on an Event configuration, set_event called before any accepted
\* set_contract returns ContractNotSet, for every base URL and event name.
C3_EventBeforeContract ==
    \A i \in DOMAIN calls :
        (/\ calls[i].op = "set_event"
         /\ calls[i].before.config_type = "Event"
         /\ \A j \in 1..(i - 1) : j \notin Accepted("set_contract"))
        => calls[i].res = "ContractNotSet"

\* C3, witness: such a call has been made and has returned ContractNotSet.
C3_Witness ==
    \E i \in DOMAIN calls :
        /\ calls[i].op = "set_event"
        /\ calls[i].before.config_type = "Event"
        /\ Accepted("set_contract") = {}
        /\ calls[i].res = "ContractNotSet"

\* C4: a setter call that returns an error leaves every field of the
\* configuration, the resolved path included, as it was.
C4_FailedSetterNoChange ==
    [][(/\ Len(calls') = Len(calls) + 1
        /\ calls'[Len(calls')].res # "Ok") => config' = config]_vars

\* C4, witness: new_event(...) then set_event("fired") has returned
\* ContractNotSet.
C4_Witness ==
    /\ Len(calls) = 1
    /\ calls[1].op = "set_event" /\ calls[1].arg = "fired"
    /\ calls[1].res = "ContractNotSet"

\* C5: a configuration just constructed has the kind of its factory, no
\* optional field set, and the base URL followed by the kind's fixed path as
\* its resolved path.
C5_FreshConfig ==
    calls = << >> =>
        config = [url |-> base_url \o (IF factory = "activity"
                                       THEN "/api/activity/subscribe/"
                                       ELSE "/api/events/"),
                  config_type |-> IF factory = "activity" THEN "Activity"
                                                          ELSE "Event",
                  stream_id |-> None, contract |-> None, event |-> None]

\* C5, witness: new_event("http://host:5260"), nothing called yet.
C5_Witness ==
    /\ calls = << >> /\ sse = << >>
    /\ factory = "event" /\ base_url = "http://host:5260"

\* C6: on an Event configuration, set_contract(A) directly followed by
\* set_event(B), both accepted, leaves a path ending in AB, and no contract
\* segment is appended once an event segment has been appended.
C6_OrderEnforced ==
    \A i \in DOMAIN calls :
        calls[i].before.config_type = "Event" =>
            /\ (/\ i \in Accepted("set_contract")
                /\ i + 1 \in Accepted("set_event"))
               => calls[i + 1].after.url =
                      calls[i].before.url \o calls[i].arg \o calls[i + 1].arg
            /\ \A j \in DOMAIN calls :
                   (i \in Accepted("set_event") /\ j > i)
                   => j \notin Accepted("set_contract")

\* C9: the resolved path is base_url, then the kind's fixed path, then the
\* optional fields as currently stored (stream id; contract then event).
C9_PathFromStoredFields ==
    Config_get_url(config) =
        base_url
        \o (IF config.config_type = "Activity" THEN "/api/activity/subscribe/"
                                               ELSE "/api/events/")
        \o Flat(config.stream_id) \o Flat(config.contract) \o Flat(config.event)

\* C10: an optional field that is set stays set, with the same value, in
\* every later state.
C10_SetFieldsFrozen ==
    [][/\ config.stream_id # None => config'.stream_id = config.stream_id
       /\ config.contract # None => config'.contract = config.contract
       /\ config.event # None => config'.event = config.event]_vars

----------------------------------------------------------------------------
(* Properties of the subscription *)

\* C7: every subscribe() asks the transport for a session at the resolved
\* path of the configuration; when the transport fails it returns the error
\* EventSource and nothing of the transport's cause, and otherwise the
\* receiver of the client the transport built.
C7_SubscribeOpensAtUrl ==
    \A i \in DOMAIN opens :
        LET o == opens[i] IN
        /\ o.client.url = Config_get_url(config)
        /\ o.client.ok =>
              /\ o.ret = [tag |-> "Ok", receiver |-> [id |-> o.client.id]]
              /\ \E k \in DOMAIN sessions :
                     /\ sessions[k].id = o.client.id
                     /\ sessions[k].url = Config_get_url(config)
        /\ ~o.client.ok => o.ret = [tag |-> "Err", err |-> "EventSource"]

\* C7, witness: a configuration with a stream id set has been subscribed to
\* twice, once with success and once with a transport failure.
C7_Witness ==
    /\ config.stream_id = Some("c1")
    /\ Len(opens) = 2
    /\ opens[1].client.ok /\ opens[1].ret.tag = "Ok"
    /\ ~opens[2].client.ok /\ opens[2].ret.tag = "Err"

\* What the consumer has taken and what is still queued is what was pushed.
InOrder(s) == s.received \o s.chan = s.pushed

\* C8: the consumer receives the events of a session in the order the
\* transport pushed them, each once and nothing else, and once the transport
\* has closed it receives them all and then sees the end of the stream.
C8_FifoThenEnd ==
    /\ [](\A i \in DOMAIN sessions :
             /\ InOrder(sessions[i])
             /\ sessions[i].terminated =>
                   /\ sessions[i].state # "open"
                   /\ sessions[i].received = sessions[i].pushed)
    /\ \A i \in 1..MaxSubscribes :
           (i \in DOMAIN sessions /\ sessions[i].state = "closed")
           ~> (/\ i \in DOMAIN sessions
               /\ sessions[i].terminated
               /\ sessions[i].received = sessions[i].pushed)

\* C8, witness: a session closed by the transport after two different
\* events, both received in order, and the end of the stream seen.
C8_Witness ==
    \E i \in DOMAIN sessions :
        /\ sessions[i].state = "closed"
        /\ sessions[i].terminated
        /\ sessions[i].received = <<"e1", "e2">>
        /\ sessions[i].pushed = <<"e1", "e2">>

----------------------------------------------------------------------------
(* Further properties of the configuration *)

\* C11: every accepted setter call leaves the path it found followed by its
\* argument, with nothing in between and whether or not the same value was
\* appended before; the same setter accepted twice with a value v leaves v
\* twice in the path.
C11_AppendsUnconditionally ==
    \A i \in DOMAIN calls :
        calls[i].res = "Ok" =>
            /\ calls[i].after.url = calls[i].before.url \o calls[i].arg
            /\ (/\ i > 1
                /\ calls[i - 1].res = "Ok"
                /\ calls[i - 1].op = calls[i].op
                /\ calls[i - 1].arg = calls[i].arg)
               => calls[i].after.url =
                      calls[i - 1].before.url \o calls[i].arg \o calls[i].arg

\* C11, witness: set_stream_id("c1") accepted twice has left
\* "http://host:5260/api/activity/subscribe/c1c1".
C11_Witness ==
    /\ Len(calls) = 2
    /\ \A i \in {1, 2} : /\ calls[i].op = "set_stream_id"
                         /\ calls[i].arg = "c1" /\ calls[i].res = "Ok"
    /\ Config_get_url(config) = "http://host:5260/api/activity/subscribe/c1c1"

\* C12: event is set only if contract is set.
C12_EventNeedsContract ==
    config.event # None => config.contract # None

\* C12, witness: set_event has been accepted, after set_contract.
C12_Witness ==
    /\ config.event = Some("fired")
    /\ config.contract = Some("c1")
    /\ Accepted("set_event") # {}

\* C13: an Activity configuration never has contract or event set and an
\* Event configuration never has stream_id set, and a setter of the other
\* kind leaves the path as it was.
C13_NoForeignFields ==
    /\ config.config_type = "Activity"
          => config.contract = None /\ config.event = None
    /\ config.config_type = "Event" => config.stream_id = None
    /\ \A i \in DOMAIN calls :
           (\/ (/\ calls[i].before.config_type = "Activity"
                /\ calls[i].op \in {"set_contract", "set_event"})
            \/ (/\ calls[i].before.config_type = "Event"
                /\ calls[i].op = "set_stream_id"))
           => calls[i].after.url = calls[i].before.url

\* C13, witness: set_stream_id has been called on an Event configuration
\* that has a contract set, and stream_id is still absent.
C13_Witness ==
    /\ config.config_type = "Event"
    /\ config.contract # None
    /\ \E i \in DOMAIN calls : calls[i].op = "set_stream_id"
    /\ config.stream_id = None

\* The kind the factory chose.
FactoryKind == IF factory = "activity" THEN "Activity" ELSE "Event"

\* C14: after any setter calls, accepted or rejected, and any subscribe
\* calls, the kind is the one the factory chose, in the configuration and in
\* the listener that holds it.
C14_KindFixed ==
    /\ config.config_type = FactoryKind
    /\ \A i \in DOMAIN calls : calls[i].after.config_type = FactoryKind
    /\ sse # << >> => sse[1].config.config_type = FactoryKind

\* C14, witness: an Event configuration after an accepted and a rejected
\* setter call and a subscribe.
C14_Witness ==
    /\ factory = "event"
    /\ \E i \in DOMAIN calls : calls[i].res = "Ok"
    /\ \E i \in DOMAIN calls : calls[i].res = "IncompatibleConfig"
    /\ opens # << >>
    /\ config.config_type = "Event"

----------------------------------------------------------------------------
(* Further properties of the subscription *)

\* The subscribe() calls that returned a receiver.
OkOpens == {i \in DOMAIN opens : opens[i].ret.tag = "Ok"}

\* C15: a subscribe() that returns the error EventSource adds no session,
\* open or half-open, and leaves the configuration and the listener as they
\* were.
C15_FailedSubscribeNoState ==
    [][(/\ Len(opens') = Len(opens) + 1
        /\ opens'[Len(opens')].ret.tag = "Err")
       => /\ sessions' = sessions
          /\ sse' = sse
          /\ config' = config]_vars

\* C15, witness: a subscribe() has succeeded and the next one has returned
\* the error; the one session is that of the first.
C15_Witness ==
    /\ Len(opens) = 2
    /\ opens[1].ret.tag = "Ok"
    /\ opens[2].ret = [tag |-> "Err", err |-> "EventSource"]
    /\ Len(sessions) = 1 /\ sessions[1].id = 1

\* C16, as claimed: at most one transport session is ever opened from one
\* configuration.
C16_AtMostOneSession == Len(sessions) <= 1

\* C16, amended: a configuration is given to one listener; every subscribe()
\* on that listener that returns a receiver opens one more session at the
\* configuration's path, so there are as many sessions as such calls.
C16_OneSessionPerSubscribe ==
    /\ Len(sse) <= 1
    /\ sse # << >> => sse[1].config = config
    /\ opens # << >> => sse # << >>
    /\ Len(sessions) = Cardinality(OkOpens)
    /\ \A k \in DOMAIN sessions :
           /\ sessions[k].id \in OkOpens
           /\ sessions[k].url = Config_get_url(sse[1].config)
           /\ \A l \in DOMAIN sessions :
                  sessions[l].id = sessions[k].id => l = k

\* C16, witness: two subscribe() calls on the same listener have each opened
\* a session.
C16_Witness ==
    /\ Len(opens) = 2
    /\ OkOpens = {1, 2}
    /\ Len(sessions) = 2

\* C17: once the configuration is in the listener, no setter call is made on
\* it, and no step, subscribe() included, changes it or the listener.
C17_ReadOnlyAfterNew ==
    [][sse # << >> => /\ sse' = sse
                      /\ config' = config
                      /\ calls' = calls]_vars

\* C17, witness: a configured listener after a subscribe() that succeeded
\* and one that failed, still holding the configuration as it was built.
C17_Witness ==
    /\ sse # << >>
    /\ calls # << >>
    /\ sse[1].config = calls[Len(calls)].after
    /\ \E i \in DOMAIN opens : opens[i].ret.tag = "Ok"
    /\ \E i \in DOMAIN opens : opens[i].ret.tag = "Err"

\* What C18 asks of one step, for the sessions that exist before it.
SessionsKeepTheirEnd ==
    /\ Len(sessions') >= Len(sessions)
    /\ \A i \in DOMAIN sessions :
           /\ sessions'[i].id = sessions[i].id
           /\ sessions[i].state # "open" =>
                 /\ sessions'[i].state = sessions[i].state
                 /\ sessions'[i].pushed = sessions[i].pushed
           /\ sessions[i].terminated => sessions'[i] = sessions[i]

\* What C18 asks of one step, for the opening of sessions.
OneOpenPerSubscribe ==
    /\ opens' # opens =>
          /\ Len(opens') = Len(opens) + 1
          /\ SubSeq(opens', 1, Len(opens)) = opens
    /\ Len(sessions') # Len(sessions) =>
          /\ Len(sessions') = Len(sessions) + 1
          /\ Len(opens') = Len(opens) + 1
          /\ opens'[Len(opens')].ret.tag = "Ok"
          /\ sessions'[Len(sessions')].state = "open"
          /\ sessions'[Len(sessions')].pushed = << >>
    /\ (\E i \in DOMAIN sessions : /\ sessions[i].state = "open"
                                   /\ sessions'[i].state # "open")
          => opens' = opens /\ Len(sessions') = Len(sessions)

\* C18: a session exists, open, only from a subscribe() whose request to the
\* transport succeeded; once closed or failed it keeps that state and the
\* transport pushes nothing more into it, and once the consumer has seen the
\* end it receives nothing more; every subscribe() makes one request to the
\* transport, and the end of a session opens no other.
C18_SessionStateMachine ==
    [][SessionsKeepTheirEnd /\ OneOpenPerSubscribe]_vars

\* C18, witness: of two sessions opened by two subscribe() calls one has
\* failed and one has closed, and there has been no other request.
C18_Witness ==
    /\ Len(opens) = 2
    /\ Len(sessions) = 2
    /\ sessions[1].state = "failed"
    /\ sessions[2].state = "closed"
    /\ sessions[1].terminated

====
